---- MODULE Spec2Model ----
(***************************************************************************)
(* AdLocalizerLight: the per-language localization pipeline (translate ->   *)
(* generate voice -> mix -> package) as driven by its two entry points:     *)
(*   variant = "flask"      src/app.py, one browser session of the HTTP API *)
(*   variant = "streamlit"  src/AdLocalizerLight.py, reruns of main()       *)
(* Strings that the code inspects (strip, re.sub, split) are sequences of   *)
(* one-character strings; dicts are functions with a finite domain; a path  *)
(* is a record [dir, name] of sequences of strings.                         *)
(***************************************************************************)
EXTENDS Integers, Sequences, FiniteSets, TLC

VARIABLES
    variant,              \* which entry point this behaviour runs
    session,              \* flask.session / st.session_state, as a dict
    client_translations,  \* flask: 'translations' of the last 200 answer of /api/translate
    files,                \* the files that exist in the export directory
    calls,                \* collaborator invocations made by the last handler
    resp,                 \* what the last handler answered
    last,                 \* the last handler and the inputs it was given
    requests,             \* flask: the requests a worker is handling, step by step
    stored                \* flask: what the file at the path of an uploaded video holds

vars == <<variant, session, client_translations, files, calls, resp, last, requests, stored>>

-----------------------------------------------------------------------------
(* Bounds of the model *)

\* how many entries of the language catalog are modelled
NumLanguages == 2

-----------------------------------------------------------------------------
(* Python values *)

\* an empty dict
EmptyDict == <<>>

\* None where a string is expected (no one-character string equals it)
None == <<"<None>">>

\* None / a missing path
NoPath == [dir |-> <<>>, name |-> <<>>]

\* d[k] = v
Put(d, k, v) == [x \in (DOMAIN d) \cup {k} |-> IF x = k THEN v ELSE d[x]]

\* d.get(k, default)
Get(d, k, default) == IF k \in DOMAIN d THEN d[k] ELSE default

\* truthiness of an optional string: neither None nor ""
Truthy(s) == s # None /\ s # <<>>

Whitespace == {" ", "\n", "\t"}

Alnum ==
    {"a","b","c","d","e","f","g","h","i","j","k","l","m","n","o","p","q","r","s",
     "t","u","v","w","x","y","z","A","B","C","D","E","F","G","H","I","J","K","L",
     "M","N","O","P","Q","R","S","T","U","V","W","X","Y","Z","0","1","2","3","4",
     "5","6","7","8","9"}

RECURSIVE LStrip(_)
LStrip(s) ==
    IF s # <<>> /\ Head(s) \in Whitespace THEN LStrip(Tail(s)) ELSE s

RECURSIVE RStrip(_)
RStrip(s) ==
    IF s # <<>> /\ s[Len(s)] \in Whitespace
    THEN RStrip(SubSeq(s, 1, Len(s) - 1))
    ELSE s

\* str.strip()
Strip(s) == RStrip(LStrip(s))

\* s[:n]
Take(s, n) == SubSeq(s, 1, IF Len(s) < n THEN Len(s) ELSE n)

\* re.sub(r'[^a-zA-Z0-9]', '_', s)
Sanitize(s) == [i \in 1..Len(s) |-> IF s[i] \in Alnum THEN s[i] ELSE "_"]

\* the characters of the identifier taken from the text
SlugLen == 20

\* s.split('.')[0]
RECURSIVE SplitDotFirst(_)
SplitDotFirst(s) ==
    IF s = <<>> \/ Head(s) = "." THEN <<>>
    ELSE <<Head(s)>> \o SplitDotFirst(Tail(s))

\* the elements of a list
Range(s) == {s[i] : i \in 1..Len(s)}

-----------------------------------------------------------------------------
(* Catalogs *)

\* the codes of LANGUAGES; JP and FR come first, so that the modelled cut holds them
CatalogCodes ==
    <<"JP","FR","DE","CN","IN","KR","BR","IT","ES","ID","TR","PH","PL","SA","MY","VN","TH">>

\* the displayed names, in the same order
CatalogNames ==
    <<"Japanese","French","German","Traditional Chinese","Hindi","Korean",
      "Brazilian Portuguese","Italian","Spanish","Indonesian","Turkish","Filipino",
      "Polish","Arabic","Malay","Vietnamese","Thai">>

\* LANGUAGES, cut to the modelled entries
LANGUAGES ==
    [c \in {CatalogCodes[i] : i \in 1..NumLanguages} |->
        CatalogNames[CHOOSE i \in 1..Len(CatalogCodes) : CatalogCodes[i] = c]]

\* a language code that is in no catalog
UnknownCode == "XX"

FlaskVOICES ==
    {[name |-> "Tom Cruise", id |-> "g60FwKJuhCJqbDCeuXjm"],
     [name |-> "Doja Cat", id |-> "E1c1pVuZVvPrme6B9ryw"],
     [name |-> "Chris", id |-> "iP95p4xoKVk53GoZ742B"]}

StreamlitVOICES ==
    {[name |-> "Tom Cruise", id |-> "g60FwKJuhCJqbDCeuXjm"],
     [name |-> "Doja Cat", id |-> "E1c1pVuZVvPrme6B9ryw"]}

VOICES == IF variant = "flask" THEN FlaskVOICES ELSE StreamlitVOICES

\* next((v["name"] for v in VOICES.values() if v["id"] == voice_id), "Unknown")
VoiceName(voice_id) ==
    IF \E v \in VOICES : v.id = voice_id
    THEN (CHOOSE v \in VOICES : v.id = voice_id).name
    ELSE "Unknown"

-----------------------------------------------------------------------------
(* Inputs: what a caller may send and what a collaborator may answer *)

\* the language codes a request may name
Codes == (DOMAIN LANGUAGES) \cup {UnknownCode}

\* position of a code in the order requests list them
CodeRank(c) ==
    IF \E i \in 1..Len(CatalogCodes) : CatalogCodes[i] = c
    THEN CHOOSE i \in 1..Len(CatalogCodes) : CatalogCodes[i] = c
    ELSE Len(CatalogCodes) + 1

\* the list of the codes of S
RECURSIVE ListOf(_)
ListOf(S) ==
    IF S = {} THEN <<>>
    ELSE LET c == CHOOSE x \in S : \A y \in S : CodeRank(x) <= CodeRank(y)
         IN  <<c>> \o ListOf(S \ {c})

\* the language lists a request carries: none, the catalog, one with an unknown code
RequestLists ==
    {<<>>, ListOf(DOMAIN LANGUAGES), <<CatalogCodes[1], UnknownCode>>}

\* the texts a caller enters
SourceTexts == {<<>>, <<" ">>, <<"H","i","!">>}

\* translation modes a request may carry; the last is neither faithful nor creative
Modes == {"faithful", "literal"}

\* the requests for a translation: every list with a text, and the odd texts and modes
TranslateRequests ==
    {[text |-> <<"H","i","!">>, languages |-> ls, mode |-> "faithful"] : ls \in RequestLists}
    \cup {[text |-> t, languages |-> ListOf(DOMAIN LANGUAGES), mode |-> m] :
             t \in SourceTexts, m \in Modes}

\* a collaborator call that raised, or answered with an error status
Fail == <<"<fail>">>

\* a collaborator call that succeeded (where it returns no text)
Ok == <<"<ok>">>

\* the letter that stands for the translation into a language
Letter(lang_code) ==
    CASE lang_code = "JP" -> "j" [] lang_code = "FR" -> "f" [] lang_code = "DE" -> "d"
      [] OTHER -> "x"

\* message.content of a translation answer for a language: a text or a blank
Contents(lang_code) == {<<" ", Letter(lang_code), "\n">>, <<" ">>}

TranslateOutcomes(lang_code) == Contents(lang_code) \cup {Fail}

StageOutcomes == {Ok, Fail}

\* ffmpeg failed (ffmpeg.Error) and the stderr it captured is not valid UTF-8
FailBadStderr == <<"<fail: stderr is not UTF-8>">>

\* the ways a run of ffmpeg ends
MixOutcomes == {Ok, Fail, FailBadStderr}

\* a text that no translation answer holds
ForgedText == <<"z">>

\* the first voice of VOICES
CatalogVoice == "g60FwKJuhCJqbDCeuXjm"

\* voice ids a request may carry
VoiceIds == {"g60FwKJuhCJqbDCeuXjm", "E1c1pVuZVvPrme6B9ryw"}

\* the texts of the text area
StTexts == {<<>>, <<"H","i","!">>}

\* the radio's default mode (creative differs from it in the prompt alone)
StModes == {"faithful"}

\* the voices the selectbox offers
StVoiceIds == {"g60FwKJuhCJqbDCeuXjm", "E1c1pVuZVvPrme6B9ryw"}

\* what the multiselect may hold
Selections == {ListOf(T) : T \in SUBSET DOMAIN LANGUAGES}

\* names of uploaded videos
VideoNames == {<<"v",".","m","p","4">>, <<"v",".","1",".","m","o","v">>}

\* uuid4 never returns an id that is in use
SessionIds == {"u1", "u2"}

\* gains, in tenths
DefaultOriginalVolume == 8

DefaultVoiceoverVolume == 13

Volumes == {[original |-> DefaultOriginalVolume, voiceover |-> DefaultVoiceoverVolume]}

\* the upper end of both sliders (2.0)
MaxVolume == 20

\* the gains a request to /api/mix-audio may carry: the defaults, or any number
RequestVolumes ==
    Volumes \cup {[original |-> MaxVolume + 5, voiceover |-> DefaultVoiceoverVolume]}

-----------------------------------------------------------------------------
(* Stage functions *)

\* no collaborator invoked
NoCalls == [translate |-> {}, synth |-> {}, mix |-> {}]

\* get_enhanced_system_message raises (base_message is unbound) for any other mode
ModeKnown(mode) == mode \in {"faithful", "creative"}

\* translate_text: the stripped answer, or None when anything raised
translate_text(text, target_language, translation_mode, outcome) ==
    IF ~ModeKnown(translation_mode) THEN None
    ELSE IF outcome = Fail THEN None
    ELSE Strip(outcome)

\* whether translate_text got as far as calling the translation collaborator
TranslateCalled(translation_mode) == ModeKnown(translation_mode)

\* the output file of generate_elevenlabs_voice
VoiceOutputFile(language_code, output_directory, english_identifier, voice_id) ==
    [dir  |-> output_directory,
     name |-> <<VoiceName(voice_id), "_", language_code, "_">>
                \o english_identifier \o <<".mp3">>]

\* generate_elevenlabs_voice: the written file, or None
generate_elevenlabs_voice(text, language_code, output_directory, english_identifier, voice_id, outcome) ==
    IF outcome = Ok
    THEN VoiceOutputFile(language_code, output_directory, english_identifier, voice_id)
    ELSE NoPath

\* mix_audio_with_video: True when ffmpeg wrote output_file
mix_audio_with_video(audio_file, video_file, output_file, outcome) == outcome = Ok

\* mix_audio_with_video raises: e.stderr.decode() fails inside `except ffmpeg.Error`,
\* where the `except Exception` beside it does not catch
MixRaises(outcome) == outcome = FailBadStderr

\* the languages of a mix loop up to and including the first whose mix raises
RECURSIVE MixReached(_, _)
MixReached(languages, outcome) ==
    IF languages = <<>> THEN {}
    ELSE IF MixRaises(outcome[Head(languages)]) THEN {Head(languages)}
    ELSE {Head(languages)} \cup MixReached(Tail(languages), outcome)

\* a dict cut to some of its keys
Restrict(d, keys) == [k \in (DOMAIN d) \cap keys |-> d[k]]

-----------------------------------------------------------------------------
(* The session, read the way the handlers read it *)

\* session.get('audio_files', {}) / st.session_state.audio_files
AudioFiles == Get(session, "audio_files", EmptyDict)

\* session.get('mixed_videos', {}) / st.session_state.mixed_videos
MixedVideos == Get(session, "mixed_videos", EmptyDict)

\* session.get('video_path') / st.session_state.video_path
VideoPath == Get(session, "video_path", NoPath)

\* st.session_state.translations; for flask the mapping the page got from /api/translate
Translations ==
    IF variant = "streamlit" THEN Get(session, "translations", EmptyDict)
    ELSE client_translations

\* the values of a dict
Values(d) == {d[k] : k \in DOMAIN d}

\* the handler's answer
Answer(status, body) == [status |-> status, body |-> body]

-----------------------------------------------------------------------------
(* src/app.py: the Flask routes *)

\* str(uuid.uuid4())
Uuid4 == CHOOSE u \in SessionIds : u # Get(session, "session_id", "")

\* what a page may post as 'translations': what /api/translate answered, or its own
RequestTranslations ==
    {client_translations} \cup
    {[l \in T |-> ForgedText] : T \in {{}, {CatalogCodes[1]}}}

\* the requests for voices: every mapping with a voice, and one without a voice_id
VoiceRequests ==
    {[translations |-> t, voice_id |-> v] : t \in RequestTranslations, v \in VoiceIds}
    \cup {[translations |-> client_translations, voice_id |-> ""]}

\* the forms an upload may carry: no file part, an unselected file, a video
UploadRequests ==
    {[has_file |-> FALSE, filename |-> <<>>], [has_file |-> TRUE, filename |-> <<>>]}
    \cup {[has_file |-> TRUE, filename |-> n] : n \in VideoNames}

\* the loop as it would be if a failed language ended the batch
RECURSIVE FlaskTranslateLoopStoppingAtFailure(_, _, _, _, _)
FlaskTranslateLoopStoppingAtFailure(languages, text, translation_mode, outcome, translations) ==
    IF languages = <<>> THEN translations
    ELSE LET lang_code == Head(languages)
             translation ==
                 translate_text(text, LANGUAGES[lang_code], translation_mode,
                                outcome[lang_code])
         IN  IF lang_code \in DOMAIN LANGUAGES /\ ~Truthy(translation)
             THEN translations
             ELSE FlaskTranslateLoopStoppingAtFailure(
                      Tail(languages), text, translation_mode, outcome,
                      IF lang_code \in DOMAIN LANGUAGES
                      THEN Put(translations, lang_code, translation)
                      ELSE translations)

\* app.py 303-309: for lang_code in languages
RECURSIVE FlaskTranslateLoop(_, _, _, _, _)
FlaskTranslateLoop(languages, text, translation_mode, outcome, translations) ==
    IF languages = <<>> THEN translations
    ELSE LET lang_code == Head(languages)
             translation ==
                 translate_text(text, LANGUAGES[lang_code], translation_mode,
                                outcome[lang_code])
         IN  FlaskTranslateLoop(
                 Tail(languages), text, translation_mode, outcome,
                 IF lang_code \in DOMAIN LANGUAGES /\ Truthy(translation)
                 THEN Put(translations, lang_code, translation)
                 ELSE translations)

\* the check as it would be if it forgot the languages
FlaskTranslateRejectsEmptyTextOnly(text, languages) == text = <<>>

\* the check of app.py 300
FlaskTranslateRejects(text, languages) == text = <<>> \/ languages = <<>>

\* the languages for which that loop reaches the translation collaborator
FlaskTranslateCalled(text, languages, translation_mode) ==
    IF FlaskTranslateRejects(text, languages) \/ ~TranslateCalled(translation_mode)
    THEN {}
    ELSE {c \in Range(languages) : c \in DOMAIN LANGUAGES}

\* POST /api/translate
FlaskTranslate(text_in, languages, translation_mode) ==
    /\ variant = "flask"
    /\ LET text == Strip(text_in)
           called == FlaskTranslateCalled(text, languages, translation_mode)
       IN  \E outcome \in {f \in [called -> UNION {TranslateOutcomes(c) : c \in called}] :
                             \A c \in called : f[c] \in TranslateOutcomes(c)} :
             /\ IF FlaskTranslateRejects(text, languages)
                THEN /\ resp' = Answer("400", EmptyDict)
                     /\ UNCHANGED client_translations
                ELSE LET translations ==
                             FlaskTranslateLoop(languages, text, translation_mode,
                                                outcome, EmptyDict)
                     IN  /\ resp' = Answer("200", translations)
                         /\ client_translations' = translations
             /\ calls' = [NoCalls EXCEPT !.translate =
                             {[lang |-> c, text |-> text] : c \in called}]
             /\ last' = [op |-> "translate", languages |-> languages, text |-> text_in,
                         mode |-> translation_mode, outcome |-> outcome]
    /\ UNCHANGED <<requests, stored, variant, session, files>>

\* the id as it would be if every call drew a new one
FreshSessionId == CHOOSE u \in SessionIds : u # Get(session, "session_id", "")

\* app.py 327-328 and 361-362: session.get('session_id', str(uuid.uuid4()))
SessionId == Get(session, "session_id", Uuid4)

\* app.py 337-342: for lang_code, translation in translations.items()
FlaskVoiceLoop(translations, audio_dir, english_identifier, voice_id, outcome) ==
    LET output_file(l) ==
            generate_elevenlabs_voice(translations[l], l, audio_dir, english_identifier,
                                      voice_id, outcome[l])
    IN  [l \in {c \in DOMAIN translations : output_file(c) # NoPath} |-> output_file(l)]

\* the check of app.py 323
FlaskVoiceRejects(translations, voice_id) == translations = EmptyDict \/ voice_id = ""

\* POST /api/generate-voice
FlaskGenerateVoice(translations, voice_id) ==
    /\ variant = "flask"
    /\ IF FlaskVoiceRejects(translations, voice_id)
       THEN /\ resp' = Answer("400", EmptyDict)
            /\ calls' = NoCalls
            /\ last' = [op |-> "generate_voice", translations |-> translations,
                        voice_id |-> voice_id, outcome |-> EmptyDict]
            /\ UNCHANGED <<session, files>>
       ELSE \E first \in DOMAIN translations,
               outcome \in [DOMAIN translations -> StageOutcomes] :
            LET session_id == SessionId
                audio_dir == <<"temp_files", session_id, "audio">>
                \* list(translations.values())[0][:20]
                english_identifier == Sanitize(Take(translations[first], SlugLen))
                audio_files ==
                    FlaskVoiceLoop(translations, audio_dir, english_identifier, voice_id,
                                   outcome)
            IN  /\ session' = Put(Put(session, "session_id", session_id),
                                  "audio_files", audio_files)
                /\ UNCHANGED files
                /\ calls' = [NoCalls EXCEPT !.synth =
                                {[lang |-> l, text |-> translations[l],
                                  voice_id |-> voice_id] : l \in DOMAIN translations}]
                /\ resp' = Answer("200", audio_files)
                /\ last' = [op |-> "generate_voice", translations |-> translations,
                            voice_id |-> voice_id, outcome |-> outcome]
    /\ UNCHANGED <<requests, stored, variant, client_translations>>

\* the upload as it would be if a new video also discarded the mixed videos
FlaskUploadVideoDroppingMixed(has_file, filename) ==
    /\ variant = "flask"
    /\ IF ~has_file \/ filename = <<>>
       THEN /\ resp' = Answer("400", EmptyDict)
            /\ UNCHANGED session
       ELSE LET session_id == Get(session, "session_id", CHOOSE u \in SessionIds : TRUE)
                video_path == [dir |-> <<"temp_files", session_id, "video">>,
                               name |-> filename]
            IN  /\ session' = Put(Put(Put(session, "session_id", session_id),
                                      "video_path", video_path),
                                  "mixed_videos", EmptyDict)
                /\ resp' = Answer("200", EmptyDict)
    /\ calls' = NoCalls
    /\ last' = [op |-> "upload_video", has_file |-> has_file, filename |-> filename]
    /\ UNCHANGED <<requests, stored, variant, client_translations, files>>

\* POST /api/upload-video; filename "" is a form without a selected file
FlaskUploadVideo(has_file, filename) ==
    /\ variant = "flask"
    /\ IF ~has_file \/ filename = <<>>
       THEN /\ resp' = Answer("400", EmptyDict)
            /\ UNCHANGED session
       ELSE LET session_id == SessionId
                video_path == [dir |-> <<"temp_files", session_id, "video">>,
                               name |-> filename]
            IN  /\ session' = Put(Put(session, "session_id", session_id),
                                  "video_path", video_path)
                /\ resp' = Answer("200", EmptyDict)
    /\ calls' = NoCalls
    /\ last' = [op |-> "upload_video", has_file |-> has_file, filename |-> filename]
    /\ UNCHANGED <<requests, stored, variant, client_translations, files>>

\* app.py 401 / AdLocalizerLight.py 588: the name of a mixed video
MixOutputFile(export_dir, video_filename, lang_code) ==
    [dir |-> export_dir,
     name |-> SplitDotFirst(video_filename) \o <<"_", lang_code, ".mp4">>]

\* app.py 400-403: for lang_code, audio_file in audio_files.items()
FlaskMixLoop(audio_files, video_path, export_dir, outcome) ==
    [l \in {c \in DOMAIN audio_files :
              mix_audio_with_video(audio_files[c], video_path,
                                   MixOutputFile(export_dir, video_path.name, c),
                                   outcome[c])}
        |-> MixOutputFile(export_dir, video_path.name, l)]

\* the check as it would be if it forgot the video
FlaskMixRejectsNoAudioOnly(audio_files, video_path) == audio_files = EmptyDict

\* the check of app.py 388
FlaskMixRejects(audio_files, video_path) ==
    audio_files = EmptyDict \/ video_path = NoPath

\* the collaborator calls of a mix pass over audio_files
MixCalls(audio_files, video_path, volumes) ==
    {[lang |-> l, audio_file |-> audio_files[l], video_file |-> video_path,
      volumes |-> volumes] : l \in DOMAIN audio_files}

\* POST /api/mix-audio
FlaskMixAudio(volumes) ==
    /\ variant = "flask"
    /\ LET audio_files == AudioFiles
           video_path == VideoPath
       IN  IF FlaskMixRejects(audio_files, video_path)
           THEN /\ resp' = Answer("400", EmptyDict)
                /\ calls' = NoCalls
                /\ last' = [op |-> "mix_audio", outcome |-> EmptyDict]
                /\ UNCHANGED <<session, files>>
           ELSE \E outcome \in [DOMAIN audio_files -> MixOutcomes] :
                LET session_id == Get(session, "session_id", "None")
                    export_dir == <<"temp_files", session_id, "export">>
                    reached == MixReached(ListOf(DOMAIN audio_files), outcome)
                    raised == \E l \in reached : MixRaises(outcome[l])
                    mixed_videos ==
                        FlaskMixLoop(Restrict(audio_files, reached), video_path,
                                     export_dir, outcome)
                IN  \* an exception leaves the loop before session['mixed_videos'] is
                    \* written and the route answers 500 (app.py 407-409)
                    /\ session' = IF raised THEN session
                                   ELSE Put(session, "mixed_videos", mixed_videos)
                    /\ files' = files \cup Values(mixed_videos)
                    /\ calls' = [NoCalls EXCEPT !.mix =
                                    MixCalls(Restrict(audio_files, reached), video_path,
                                             volumes)]
                    /\ resp' = IF raised THEN Answer("500", EmptyDict)
                                ELSE Answer("200", mixed_videos)
                    /\ last' = [op |-> "mix_audio", outcome |-> Restrict(outcome, reached)]
    /\ UNCHANGED <<requests, stored, variant, client_translations>>

\* the archive: for each path, if os.path.exists(path): write(path, basename(path))
RECURSIVE ZipEntries(_, _)
ZipEntries(file_paths, disk) ==
    IF file_paths = <<>> THEN <<>>
    ELSE (IF Head(file_paths) \in disk THEN <<Head(file_paths).name>> ELSE <<>>)
         \o ZipEntries(Tail(file_paths), disk)

\* list(d.values())
ValueList(d) == [i \in 1..Cardinality(DOMAIN d) |-> d[ListOf(DOMAIN d)[i]]]

\* a set of paths as a list
RECURSIVE PathList(_)
PathList(S) ==
    IF S = {} THEN <<>>
    ELSE LET f == CHOOSE x \in S : TRUE IN <<f>> \o PathList(S \ {f})

\* the package step as it would be if it took every file of the export directory
PackagedExportDirectory == PathList(files)

\* what the package step iterates over
PackagedVideos == ValueList(MixedVideos)

\* GET /api/download-all
FlaskDownloadAll ==
    /\ variant = "flask"
    /\ IF "session_id" \notin DOMAIN session \/ MixedVideos = EmptyDict
       THEN resp' = Answer("404", <<>>)
       ELSE resp' = Answer("200", ZipEntries(PackagedVideos, files))
    /\ calls' = NoCalls
    /\ last' = [op |-> "download_all"]
    /\ UNCHANGED <<requests, stored, variant, session, client_translations, files>>

-----------------------------------------------------------------------------
(* src/app.py: the routes that deliver one file. A request path is a record   *)
(* [dir, name]: the components before the last one, and the last one.         *)

\* the component ".."
DotDot == <<".", ".">>

\* the files known to exist: those tracked, and those the session's mappings name
Disk ==
    files \cup Values(AudioFiles) \cup (IF VideoPath # NoPath THEN {VideoPath} ELSE {})

\* the directory a list of components leads to, each ".." leaving the one before it
RECURSIVE Collapse(_, _)
Collapse(parts, done) ==
    IF parts = <<>> THEN done
    ELSE IF Head(parts) = ".."
    THEN Collapse(Tail(parts),
                  IF done = <<>> THEN <<>> ELSE SubSeq(done, 1, Len(done) - 1))
    ELSE Collapse(Tail(parts), Append(done, Head(parts)))

\* the request path as it was given
WholePath(filepath) == filepath

\* Path(filepath).name: the last component alone
PathName(filepath) == [dir |-> <<>>, name |-> filepath.name]

\* Path(f"temp_files/{session_id}/{sub}/{given}")
Under(session_id, sub, given) ==
    [dir |-> <<"temp_files", session_id, sub>> \o given.dir, name |-> given.name]

\* the file a path leads to
Resolved(file_path) == [dir |-> Collapse(file_path.dir, <<>>), name |-> file_path.name]

\* what is at a path: a file, a directory (the name is ".."), or nothing
Found(file_path) ==
    LET dir == Collapse(file_path.dir, <<>>)
    IN  IF file_path.name = DotDot
        THEN IF \E f \in Disk : Len(f.dir) >= Len(dir) /\ SubSeq(f.dir, 1, Len(dir)) = dir
             THEN "directory" ELSE "nothing"
        ELSE IF Resolved(file_path) \in Disk THEN "file" ELSE "nothing"

\* if not file_path.exists(): 404; send_file(file_path), which raises for a directory
Deliver(file_path) ==
    CASE Found(file_path) = "file" -> Answer("200", Resolved(file_path))
      [] Found(file_path) = "directory" -> Answer("500", NoPath)
      [] OTHER -> Answer("404", NoPath)

\* GET /download/<filename>: the rule matches one component only, else no route (404)
FlaskDownloadFile(filename) ==
    /\ variant = "flask"
    /\ resp' = IF filename.dir # <<>> \/ "session_id" \notin DOMAIN session
               THEN Answer("404", NoPath)
               ELSE Deliver(Under(session["session_id"], "export", filename))
    /\ calls' = NoCalls
    /\ last' = [op |-> "download_file", filepath |-> filename]
    /\ UNCHANGED <<requests, stored, variant, session, client_translations, files>>

\* GET /audio/<path:filepath>
FlaskServeAudio(filepath) ==
    /\ variant = "flask"
    /\ resp' = IF "session_id" \notin DOMAIN session
               THEN Answer("404", NoPath)
               ELSE LET safe_path == PathName(filepath)
                    IN  Deliver(Under(session["session_id"], "audio", safe_path))
    /\ calls' = NoCalls
    /\ last' = [op |-> "serve_audio", filepath |-> filepath]
    /\ UNCHANGED <<requests, stored, variant, session, client_translations, files>>

\* GET /video/<path:filepath>
FlaskServeVideo(filepath) ==
    /\ variant = "flask"
    /\ resp' = IF "session_id" \notin DOMAIN session
               THEN Answer("404", NoPath)
               ELSE LET safe_path == PathName(filepath)
                    IN  Deliver(Under(session["session_id"], "export", safe_path))
    /\ calls' = NoCalls
    /\ last' = [op |-> "serve_video", filepath |-> filepath]
    /\ UNCHANGED <<requests, stored, variant, session, client_translations, files>>

\* the paths the page asks for: the mixed videos and voices it was told of, by name
\* (the voices also from beside the export directory), and a file that is not there
ArtifactRequests ==
    {[dir |-> <<>>, name |-> f.name] : f \in Values(MixedVideos)}
    \cup {[dir |-> <<"..", "audio">>, name |-> f.name] : f \in Values(AudioFiles)}
    \cup {[dir |-> <<>>, name |-> <<"n">>]}

-----------------------------------------------------------------------------
(* src/AdLocalizerLight.py: one rerun of main() per user action *)

\* AdLocalizerLight.py 362-365
StAudioDir == <<"New clean ones 2025", "audio">>

StVideoDir == <<"New clean ones 2025", "video">>

StExportDir == <<"New clean ones 2025", "export">>

\* AdLocalizerLight.py 357: the default selection, cut to the modelled catalog
DefaultSelection ==
    SelectSeq(<<"JP", "CN", "DE", "FR", "KR", "ES">>, LAMBDA c : c \in DOMAIN LANGUAGES)

\* the file the upload widget holds; <<>> is None
UploadWidget == VideoNames \cup {<<>>}

\* AdLocalizerLight.py 572-577: if video_file: save it and record video_path
UploadSection(state, video_file) ==
    IF video_file # <<>>
    THEN Put(state, "video_path", [dir |-> StVideoDir, name |-> video_file])
    ELSE state

\* AdLocalizerLight.py 516-520: for lang_code in selected_languages; LANGUAGES[lang_code]
\* raises KeyError for a code that is not in the catalog
RECURSIVE StTranslateLoop(_, _, _, _, _)
StTranslateLoop(languages, text, translation_mode, outcome, translations) ==
    IF languages = <<>> THEN [translations |-> translations, raised |-> FALSE]
    ELSE LET lang_code == Head(languages) IN
         IF lang_code \notin DOMAIN LANGUAGES
         THEN [translations |-> translations, raised |-> TRUE]
         ELSE LET translation ==
                      translate_text(text, LANGUAGES[lang_code], translation_mode,
                                     outcome[lang_code])
              IN  StTranslateLoop(
                      Tail(languages), text, translation_mode, outcome,
                      IF Truthy(translation)
                      THEN Put(translations, lang_code, translation)
                      ELSE translations)

\* the check of AdLocalizerLight.py 511
StTranslateRejects(text, languages) == text = <<>> \/ languages = <<>>

\* the languages for which that loop reaches the translation collaborator
StTranslateCalled(text, languages, translation_mode) ==
    IF StTranslateRejects(text, languages) \/ ~TranslateCalled(translation_mode)
    THEN {}
    ELSE {languages[i] : i \in {j \in 1..Len(languages) :
                                  \A k \in 1..j : languages[k] \in DOMAIN LANGUAGES}}

\* a rerun with "Translate Text" pressed
StTranslate(text, translation_mode, video_file) ==
    /\ variant = "streamlit"
    /\ LET languages == session["selected_languages"]
           called == StTranslateCalled(text, languages, translation_mode)
       IN  \E outcome \in {f \in [called -> UNION {TranslateOutcomes(c) : c \in called}] :
                             \A c \in called : f[c] \in TranslateOutcomes(c)} :
             /\ IF StTranslateRejects(text, languages)
                THEN /\ session' = UploadSection(session, video_file)
                     /\ resp' = Answer("warning", EmptyDict)
                ELSE LET done == StTranslateLoop(languages, text, translation_mode,
                                                 outcome, EmptyDict)
                         translated == Put(session, "translations", done.translations)
                     IN  IF done.raised
                         THEN /\ session' = translated
                              /\ resp' = Answer("exception", done.translations)
                         ELSE /\ session' = UploadSection(translated, video_file)
                              /\ resp' = Answer("ok", done.translations)
             /\ calls' = [NoCalls EXCEPT !.translate =
                             {[lang |-> c, text |-> text] : c \in called}]
             /\ last' = [op |-> "translate", languages |-> languages, text |-> text,
                         mode |-> translation_mode, outcome |-> outcome]
    /\ UNCHANGED <<requests, stored, variant, client_translations, files>>

\* AdLocalizerLight.py 540-545: for lang_code, translation in translations.items()
StVoiceLoop(translations, audio_dir, english_identifier, voice_id, outcome) ==
    LET output_file(l) ==
            generate_elevenlabs_voice(translations[l], l, audio_dir, english_identifier,
                                      voice_id, outcome[l])
    IN  [l \in {c \in DOMAIN translations : output_file(c) # NoPath} |-> output_file(l)]

\* a rerun with "Generate Voiceovers" pressed; the button shows only with translations
StGenerateVoiceovers(text, voice_id, video_file) ==
    /\ variant = "streamlit"
    /\ session["translations"] # EmptyDict
    /\ \E outcome \in [DOMAIN session["translations"] -> StageOutcomes] :
       LET translations == session["translations"]
           english_identifier == Sanitize(Take(text, SlugLen))
           audio_files == StVoiceLoop(translations, StAudioDir, english_identifier,
                                      voice_id, outcome)
       IN  /\ session' = UploadSection(Put(session, "audio_files", audio_files), video_file)
           /\ calls' = [NoCalls EXCEPT !.synth =
                           {[lang |-> l, text |-> translations[l],
                             voice_id |-> voice_id] : l \in DOMAIN translations}]
           /\ resp' = Answer("ok", audio_files)
           /\ last' = [op |-> "generate_voice", translations |-> translations,
                       voice_id |-> voice_id, outcome |-> outcome]
    /\ UNCHANGED <<requests, stored, variant, client_translations, files>>

\* AdLocalizerLight.py 587-590: for lang_code, audio_file in audio_files.items()
StMixLoop(audio_files, video_path, video_file, outcome) ==
    [l \in {c \in DOMAIN audio_files :
              mix_audio_with_video(audio_files[c], video_path,
                                   MixOutputFile(StExportDir, video_file, c), outcome[c])}
        |-> MixOutputFile(StExportDir, video_file, l)]

\* the check of AdLocalizerLight.py 581
StMixRejects(audio_files, video_path) == audio_files = EmptyDict \/ video_path = NoPath

\* a rerun with "Mix Audio with Video" pressed: the upload section runs first, and
\* video_file.name raises AttributeError when the widget holds no file
StMix(volumes, video_file) ==
    /\ variant = "streamlit"
    /\ LET uploaded == UploadSection(session, video_file)
           audio_files == uploaded["audio_files"]
           video_path == uploaded["video_path"]
       IN  IF StMixRejects(audio_files, video_path)
           THEN /\ session' = uploaded
                /\ resp' = Answer("warning", EmptyDict)
                /\ calls' = NoCalls
                /\ last' = [op |-> "mix_audio", outcome |-> EmptyDict]
                /\ UNCHANGED files
           ELSE IF video_file = <<>>
           THEN /\ session' = Put(uploaded, "mixed_videos", EmptyDict)
                /\ resp' = Answer("exception", EmptyDict)
                /\ calls' = NoCalls
                /\ last' = [op |-> "mix_audio", outcome |-> EmptyDict]
                /\ UNCHANGED files
           ELSE \E outcome \in [DOMAIN audio_files -> MixOutcomes] :
                LET reached == MixReached(ListOf(DOMAIN audio_files), outcome)
                    raised == \E l \in reached : MixRaises(outcome[l])
                    mixed_videos ==
                        StMixLoop(Restrict(audio_files, reached), video_path, video_file,
                                  outcome)
                IN  \* st.session_state.mixed_videos is filled in place: what the loop
                    \* stored before an exception ended the run stays
                    /\ session' = Put(uploaded, "mixed_videos", mixed_videos)
                    /\ files' = files \cup Values(mixed_videos)
                    /\ calls' = [NoCalls EXCEPT !.mix =
                                    MixCalls(Restrict(audio_files, reached), video_path,
                                             volumes)]
                    /\ resp' = IF raised THEN Answer("exception", mixed_videos)
                                ELSE Answer("ok", mixed_videos)
                    /\ last' = [op |-> "mix_audio", outcome |-> Restrict(outcome, reached)]
    /\ UNCHANGED <<requests, stored, variant, client_translations>>

\* create_zip_file(list(st.session_state.mixed_videos.values()))
create_zip_file(file_paths) == ZipEntries(file_paths, files)

\* a rerun with "Download All Videos" pressed; the button shows only with mixed videos
StDownloadAll(video_file) ==
    /\ variant = "streamlit"
    /\ session["mixed_videos"] # EmptyDict
    /\ session' = UploadSection(session, video_file)
    /\ resp' = Answer("ok", create_zip_file(PackagedVideos))
    /\ calls' = NoCalls
    /\ last' = [op |-> "download_all"]
    /\ UNCHANGED <<requests, stored, variant, client_translations, files>>

\* on_language_change, then the rerun it causes
StLanguageChange(language_selector, video_file) ==
    /\ variant = "streamlit"
    /\ session' = UploadSection(Put(session, "selected_languages", language_selector),
                                video_file)
    /\ resp' = Answer("ok", EmptyDict)
    /\ calls' = NoCalls
    /\ last' = [op |-> "language_change"]
    /\ UNCHANGED <<requests, stored, variant, client_translations, files>>

-----------------------------------------------------------------------------
(* The program *)

\* flask: an empty session; streamlit: the session after main() initialised it
Init ==
    /\ variant \in {"flask", "streamlit"}
    /\ session = IF variant = "flask" THEN EmptyDict
                 ELSE [translations |-> EmptyDict, audio_files |-> EmptyDict,
                       mixed_videos |-> EmptyDict, video_path |-> NoPath,
                       selected_languages |-> DefaultSelection]
    /\ client_translations = EmptyDict
    /\ files = {}
    /\ calls = NoCalls
    /\ resp = Answer("", EmptyDict)
    /\ last = [op |-> "start"]
    /\ requests = <<>>
    /\ stored = <<>>

Next ==
    \/ \E r \in TranslateRequests : FlaskTranslate(r.text, r.languages, r.mode)
    \/ \E r \in VoiceRequests : FlaskGenerateVoice(r.translations, r.voice_id)
    \/ \E r \in UploadRequests : FlaskUploadVideo(r.has_file, r.filename)
    \/ \E volumes \in RequestVolumes : FlaskMixAudio(volumes)
    \/ FlaskDownloadAll
    \/ \E filename \in ArtifactRequests : FlaskDownloadFile(filename)
    \/ \E filepath \in ArtifactRequests : FlaskServeAudio(filepath)
    \/ \E filepath \in ArtifactRequests : FlaskServeVideo(filepath)
    \/ \E text \in StTexts, mode \in StModes, video_file \in UploadWidget :
          StTranslate(text, mode, video_file)
    \/ \E text \in StTexts, voice_id \in StVoiceIds, video_file \in UploadWidget :
          StGenerateVoiceovers(text, voice_id, video_file)
    \/ \E volumes \in Volumes, video_file \in UploadWidget : StMix(volumes, video_file)
    \/ \E video_file \in UploadWidget : StDownloadAll(video_file)
    \/ \E selection \in Selections, video_file \in UploadWidget :
          StLanguageChange(selection, video_file)

Spec == Init /\ [][Next]_vars

-----------------------------------------------------------------------------
(* src/app.py serving several requests of one browser at a time (app.run is   *)
(* threaded). flask.session is the signed cookie: a handler works on the      *)
(* session its request carried, and the browser keeps the session of the      *)
(* response that reached it last. Each handler is cut at its collaborator     *)
(* calls: pc "loop" is between two languages, "call" is inside a call.       *)

RequestIds == {"r1", "r2"}

\* what an uploaded video may hold
VideoContents == {"a", "b"}

\* a worker that handles no request
NoRequest ==
    [op |-> "none", pc |-> "idle", session |-> EmptyDict, todo |-> <<>>,
     result |-> EmptyDict, arg |-> [none |-> TRUE]]

\* the translations the concurrent generate-voice requests carry
ConcTranslations ==
    {[l \in T |-> ForgedText] : T \in (SUBSET DOMAIN LANGUAGES) \ {{}}}

\* the video of this session and the path upload_video stores it at
ConcVideoPath == [dir |-> <<"temp_files", "u1", "video">>, name |-> <<"v",".","m","p","4">>]

\* the handler of r moves on
Step(r, op, pc, fields) ==
    /\ requests[r].op = op
    /\ requests[r].pc = pc
    /\ requests' = [requests EXCEPT ![r] = fields @@ requests[r]]

\* generate_voice up to its loop (app.py 319-335)
ConcBeginVoice(r, translations, voice_id) ==
    /\ requests[r].pc = "idle"
    /\ ~FlaskVoiceRejects(translations, voice_id)
    /\ \E first \in DOMAIN translations :
          requests' = [requests EXCEPT ![r] =
              [op |-> "generate_voice", pc |-> "loop",
               session |-> Put(session, "session_id", SessionId),
               todo |-> ListOf(DOMAIN translations), result |-> EmptyDict,
               arg |-> [translations |-> translations, voice_id |-> voice_id,
                        english_identifier |->
                            Sanitize(Take(translations[first], SlugLen))]]]
    /\ UNCHANGED <<variant, session, client_translations, files, calls, resp, last, stored>>

\* generate_elevenlabs_voice sends its request: requests.post(url, json=data,
\* headers=headers), which waits for the answer without a time limit (app.py 185)
ConcCallSynth(r) ==
    /\ requests[r].todo # <<>>
    /\ Step(r, "generate_voice", "loop", [pc |-> "call"])
    /\ UNCHANGED <<variant, session, client_translations, files, calls, resp, last, stored>>

\* the synthesis service answers (app.py 185-196, 341-342)
ConcSynthAnswers(r, outcome) ==
    /\ LET q == requests[r]
           l == Head(q.todo)
           output_file ==
               generate_elevenlabs_voice(
                   q.arg.translations[l], l,
                   <<"temp_files", q.session["session_id"], "audio">>,
                   q.arg.english_identifier, q.arg.voice_id, outcome)
       IN  Step(r, "generate_voice", "call",
                [pc |-> "loop", todo |-> Tail(q.todo),
                 result |-> IF output_file # NoPath THEN Put(q.result, l, output_file)
                            ELSE q.result])
    /\ UNCHANGED <<variant, session, client_translations, files, calls, resp, last, stored>>

\* session['audio_files'] = audio_files and the response (app.py 344-345)
ConcEndVoice(r) ==
    /\ requests[r].todo = <<>>
    /\ Step(r, "generate_voice", "loop", [pc |-> "done"])
    /\ session' = Put(requests[r].session, "audio_files", requests[r].result)
    /\ UNCHANGED <<variant, client_translations, files, calls, resp, last, stored>>

\* mix_audio up to its loop (app.py 381-398)
ConcBeginMix(r, volumes) ==
    /\ requests[r].pc = "idle"
    /\ ~FlaskMixRejects(AudioFiles, VideoPath)
    /\ requests' = [requests EXCEPT ![r] =
          [op |-> "mix_audio", pc |-> "loop", session |-> session,
           todo |-> ListOf(DOMAIN AudioFiles), result |-> EmptyDict,
           arg |-> [volumes |-> volumes]]]
    /\ UNCHANGED <<variant, session, client_translations, files, calls, resp, last, stored>>

\* mix_audio_with_video starts ffmpeg, which reads the file at video_path as it is
\* now and runs without a time limit (app.py 200-215)
ConcCallMix(r) ==
    /\ requests[r].todo # <<>>
    /\ Step(r, "mix_audio", "loop", [pc |-> "call"])
    /\ LET q == requests[r]
           l == Head(q.todo)
           video_path == q.session["video_path"]
       IN  calls' = [calls EXCEPT !.mix = @ \cup
                       {[request |-> r, lang |-> l,
                         audio_file |-> q.session["audio_files"][l],
                         video_file |-> video_path, content |-> stored[video_path],
                         volumes |-> q.arg.volumes]}]
    /\ UNCHANGED <<variant, session, client_translations, files, resp, last, stored>>

\* ffmpeg ends (app.py 217-223, 402-403); an exception ends the request with 500
ConcMixAnswers(r, outcome) ==
    /\ LET q == requests[r]
           l == Head(q.todo)
           output_file ==
               MixOutputFile(<<"temp_files", q.session["session_id"], "export">>,
                             q.session["video_path"].name, l)
       IN  IF MixRaises(outcome)
           THEN Step(r, "mix_audio", "call", [pc |-> "failed"])
           ELSE Step(r, "mix_audio", "call",
                     [pc |-> "loop", todo |-> Tail(q.todo),
                      result |-> IF mix_audio_with_video(q.session["audio_files"][l],
                                                         q.session["video_path"],
                                                         output_file, outcome)
                                 THEN Put(q.result, l, output_file)
                                 ELSE q.result])
    /\ UNCHANGED <<variant, session, client_translations, files, calls, resp, last, stored>>

\* session['mixed_videos'] = mixed_videos and the response (app.py 405-406)
ConcEndMix(r) ==
    /\ requests[r].todo = <<>>
    /\ Step(r, "mix_audio", "loop", [pc |-> "done"])
    /\ session' = Put(requests[r].session, "mixed_videos", requests[r].result)
    /\ UNCHANGED <<variant, client_translations, files, calls, resp, last, stored>>

\* upload_video, a request without a collaborator call: video_file.save(video_path)
\* and session['video_path'] (app.py 361-372)
ConcUpload(filename, content) ==
    /\ LET video_path == [dir |-> <<"temp_files", SessionId, "video">>, name |-> filename]
       IN  /\ stored' = Put(stored, video_path, content)
           /\ session' = Put(Put(session, "session_id", SessionId), "video_path", video_path)
    /\ UNCHANGED <<variant, client_translations, files, calls, resp, last, requests>>

\* the browser after it uploaded a video; no request is being handled
ConcInit ==
    /\ variant = "flask"
    /\ session = [session_id |-> "u1", video_path |-> ConcVideoPath]
    /\ stored \in {Put(EmptyDict, ConcVideoPath, c) : c \in VideoContents}
    /\ requests = [r \in RequestIds |-> NoRequest]
    /\ client_translations = EmptyDict
    /\ files = {}
    /\ calls = NoCalls
    /\ resp = Answer("200", EmptyDict)
    /\ last = [op |-> "upload_video", has_file |-> TRUE, filename |-> ConcVideoPath.name]

\* the steps of the handlers themselves
ConcHandlerStep ==
    \E r \in RequestIds :
        ConcCallSynth(r) \/ ConcEndVoice(r) \/ ConcCallMix(r) \/ ConcEndMix(r)

ConcNext ==
    \/ \E r \in RequestIds, t \in ConcTranslations : ConcBeginVoice(r, t, CatalogVoice)
    \/ \E r \in RequestIds : ConcCallSynth(r)
    \/ \E r \in RequestIds, outcome \in StageOutcomes : ConcSynthAnswers(r, outcome)
    \/ \E r \in RequestIds : ConcEndVoice(r)
    \/ \E r \in RequestIds, volumes \in Volumes : ConcBeginMix(r, volumes)
    \/ \E r \in RequestIds : ConcCallMix(r)
    \/ \E r \in RequestIds, outcome \in MixOutcomes : ConcMixAnswers(r, outcome)
    \/ \E r \in RequestIds : ConcEndMix(r)
    \/ \E content \in VideoContents : ConcUpload(ConcVideoPath.name, content)

ConcSpec == ConcInit /\ [][ConcNext]_vars

\* the handlers' own steps are taken when they can be; nothing makes a collaborator
\* answer
ConcFairSpec == ConcSpec /\ WF_vars(ConcHandlerStep)

-----------------------------------------------------------------------------
(* Transcription: /api/transcribe (src/app.py) and the "Transcribe Video"     *)
(* button (src/AdLocalizerLight.py). files holds what is in temp_transcription *)

\* values of datetime.now().strftime("%Y%m%d_%H%M%S")
Timestamps == {"t1", "t2"}

TempDir == <<"temp_transcription">>

\* the names of the videos given for transcription
TranscriptionNames == VideoNames \cup {<<"V",".","M","P","4">>}

\* how extract_audio_from_video ends: done, or failed with or without an output file
\* that ffmpeg had begun to write
ExtractOutcomes ==
    {[ok |-> TRUE, wrote |-> TRUE], [ok |-> FALSE, wrote |-> FALSE],
     [ok |-> FALSE, wrote |-> TRUE]}

\* what the speech-to-text call ends with: a text, an empty text, an exception
TranscribeOutcomes == {<<"H","i","!">>, <<>>, Fail}

\* str.lower(), on the letters the modelled names have
Lower(s) ==
    [i \in 1..Len(s) |->
        CASE s[i] = "M" -> "m" [] s[i] = "P" -> "p" [] s[i] = "V" -> "v" [] OTHER -> s[i]]

\* os.path.splitext(name)[1]: from the last dot on, "" without a dot
SplitExt(name) ==
    LET dots == {i \in 1..Len(name) : name[i] = "."}
    IN  IF dots = {} THEN <<>>
        ELSE SubSeq(name, CHOOSE i \in dots : \A j \in dots : j <= i, Len(name))

TempAudioPath(timestamp) ==
    [dir |-> TempDir, name |-> <<"temp_audio_", timestamp, ".wav">>]

\* app.py 423: temp_video_{timestamp}_{video_file.filename}
FlaskTempVideoPath(timestamp, filename) ==
    [dir |-> TempDir, name |-> <<"temp_video_", timestamp, "_">> \o filename]

\* AdLocalizerLight.py 298-305: temp_video_{timestamp}{file_extension}
StTempVideoPath(timestamp, name) ==
    [dir |-> TempDir, name |-> <<"temp_video_", timestamp>> \o Lower(SplitExt(name))]

\* extract_audio_from_video: True when ffmpeg wrote the audio
extract_audio_from_video(video_path, output_audio_path, extract) == extract.ok

\* transcribe_audio: the text, or None when the call raised
transcribe_audio(audio_file_path, answer) == IF answer = Fail THEN None ELSE answer

\* transcribe_video of app.py: the transcription and the directory it leaves
FlaskTranscribeVideo(video_file_path, timestamp, extract, answer, disk) ==
    LET temp_audio_path == TempAudioPath(timestamp)
        extracted == IF extract.wrote THEN disk \cup {temp_audio_path} ELSE disk
    IN  IF ~extract_audio_from_video(video_file_path, temp_audio_path, extract)
        THEN [transcription |-> None, disk |-> extracted]
        ELSE [transcription |-> transcribe_audio(temp_audio_path, answer),
              disk |-> extracted \ {temp_audio_path}]

\* POST /api/transcribe
FlaskTranscribe(has_file, filename, timestamp, extract, answer) ==
    /\ variant = "flask"
    /\ IF ~has_file \/ filename = <<>>
       THEN /\ resp' = Answer("400", EmptyDict)
            /\ last' = [op |-> "transcribe", created |-> {}]
            /\ UNCHANGED files
       ELSE LET temp_video_path == FlaskTempVideoPath(timestamp, filename)
                done == FlaskTranscribeVideo(temp_video_path, timestamp, extract, answer,
                                             files \cup {temp_video_path})
            IN  /\ files' = done.disk \ {temp_video_path}
                /\ resp' = IF Truthy(done.transcription)
                            THEN Answer("200", done.transcription)
                            ELSE Answer("500", EmptyDict)
                /\ last' = [op |-> "transcribe",
                            created |-> {temp_video_path} \cup
                                (IF extract.wrote THEN {TempAudioPath(timestamp)} ELSE {})]
    /\ UNCHANGED <<requests, stored, variant, session, client_translations, calls>>

\* transcribe_video of AdLocalizerLight.py: the transcription and the directory it leaves
StTranscribeVideo(video_file, timestamp, extract, answer, disk) ==
    LET temp_video_path == StTempVideoPath(timestamp, video_file)
        temp_audio_path == TempAudioPath(timestamp)
        saved == disk \cup {temp_video_path}
        extracted == IF extract.wrote THEN saved \cup {temp_audio_path} ELSE saved
    IN  IF ~extract_audio_from_video(temp_video_path, temp_audio_path, extract)
        THEN [transcription |-> None, disk |-> extracted]
        ELSE [transcription |-> transcribe_audio(temp_audio_path, answer),
              disk |-> extracted \ {temp_video_path, temp_audio_path}]

\* a rerun with "Transcribe Video" pressed; <<>> is an empty uploader
StTranscribe(transcription_video, timestamp, extract, answer) ==
    /\ variant = "streamlit"
    /\ IF transcription_video = <<>>
       THEN /\ resp' = Answer("warning", EmptyDict)
            /\ last' = [op |-> "transcribe", created |-> {}]
            /\ UNCHANGED <<files, session>>
       ELSE LET done == StTranscribeVideo(transcription_video, timestamp, extract, answer,
                                          files)
            IN  /\ files' = done.disk
                /\ IF Truthy(done.transcription)
                   THEN /\ session' = Put(session, "transcribed_text", done.transcription)
                        /\ resp' = Answer("ok", done.transcription)
                   ELSE /\ UNCHANGED session
                        /\ resp' = Answer("error", EmptyDict)
                /\ last' = [op |-> "transcribe",
                            created |-> {StTempVideoPath(timestamp, transcription_video)}
                                \cup (IF extract.wrote THEN {TempAudioPath(timestamp)}
                                      ELSE {})]
    /\ UNCHANGED <<requests, stored, variant, client_translations, calls>>

\* an empty temp_transcription; streamlit: transcribed_text = "" (AdLocalizerLight.py 359)
TranscribeInit ==
    /\ variant \in {"flask", "streamlit"}
    /\ session = IF variant = "flask" THEN EmptyDict ELSE [transcribed_text |-> <<>>]
    /\ client_translations = EmptyDict
    /\ files = {}
    /\ calls = NoCalls
    /\ resp = Answer("", EmptyDict)
    /\ last = [op |-> "start"]
    /\ requests = <<>>
    /\ stored = <<>>

TranscribeNext ==
    \/ \E r \in UploadRequests \cup
                 {[has_file |-> TRUE, filename |-> n] : n \in TranscriptionNames},
          timestamp \in Timestamps, extract \in ExtractOutcomes,
          answer \in TranscribeOutcomes :
          FlaskTranscribe(r.has_file, r.filename, timestamp, extract, answer)
    \/ \E transcription_video \in TranscriptionNames \cup {<<>>},
          timestamp \in Timestamps, extract \in ExtractOutcomes,
          answer \in TranscribeOutcomes :
          StTranscribe(transcription_video, timestamp, extract, answer)

TranscribeSpec == TranscribeInit /\ [][TranscribeNext]_vars

-----------------------------------------------------------------------------
(* The name of a voice file, for any two synthesis requests *)

\* texts the identifier is taken from: two that differ in punctuation, and two of
\* SlugLen + 1 characters that differ in the last
PathTexts ==
    {<<"H","i","!">>, <<"H","i","?">>,
     [i \in 1..(SlugLen + 1) |-> "a"],
     [i \in 1..(SlugLen + 1) |-> IF i = SlugLen + 1 THEN "b" ELSE "a"]}

\* a synthesis request: the voice, the language, the text
PathRequests ==
    [voice_id : VoiceIds \cup {"custom"}, language_code : DOMAIN LANGUAGES,
     text : PathTexts]

\* the file generate_elevenlabs_voice writes for a request
VoicePathOf(request) ==
    VoiceOutputFile(request.language_code,
                    IF variant = "flask" THEN <<"temp_files", "u1", "audio">>
                    ELSE StAudioDir,
                    Sanitize(Take(request.text, SlugLen)), request.voice_id)

\* both requests are synthesized
SynthesizeBoth ==
    /\ last.op = "requests"
    /\ resp' = Answer("ok", <<VoicePathOf(last.first), VoicePathOf(last.second)>>)
    /\ last' = [last EXCEPT !.op = "synthesized"]
    /\ UNCHANGED <<requests, stored, variant, session, client_translations, files, calls>>

PathInit ==
    /\ variant \in {"flask", "streamlit"}
    /\ session = EmptyDict
    /\ client_translations = EmptyDict
    /\ files = {}
    /\ calls = NoCalls
    /\ resp = Answer("", EmptyDict)
    /\ \E first, second \in PathRequests :
          last = [op |-> "requests", first |-> first, second |-> second]
    /\ requests = <<>>
    /\ stored = <<>>

PathNext == SynthesizeBoth

PathSpec == PathInit /\ [][PathNext]_vars

-----------------------------------------------------------------------------
(* translate_text, for any answer of the translation collaborator *)

\* the longest answer of the collaborator
MaxLen == 3

\* the characters of an answer: a blank, a line break, a letter
AnswerChars == {" ", "\n", "j"}

\* message.content of the answers, and a call that raised
Answers == (UNION {[1..n -> AnswerChars] : n \in 0..MaxLen}) \cup {Fail}

\* the modes translate_text may be given
TextModes == {"faithful", "creative", "literal"}

\* translate_text returns
TranslateText ==
    /\ last.op = "answer"
    /\ resp' = Answer("returned",
                      translate_text(<<"H","i","!">>, LANGUAGES[CatalogCodes[1]], last.mode,
                                     last.content))
    /\ last' = [last EXCEPT !.op = "translated"]
    /\ UNCHANGED <<requests, stored, variant, session, client_translations, files, calls>>

\* a call of translate_text whose collaborator is about to answer
TextInit ==
    /\ variant \in {"flask", "streamlit"}
    /\ session = EmptyDict
    /\ client_translations = EmptyDict
    /\ files = {}
    /\ calls = NoCalls
    /\ resp = Answer("", EmptyDict)
    /\ \E content \in Answers, mode \in TextModes :
          last = [op |-> "answer", content |-> content, mode |-> mode]
    /\ requests = <<>>
    /\ stored = <<>>

TextNext == TranslateText

TextSpec == TextInit /\ [][TextNext]_vars

-----------------------------------------------------------------------------
(* The delivery routes of src/app.py, for a disk that also holds the files of *)
(* another session and a file outside temp_files                              *)

\* the last components a request path may have
DeliveryNames ==
    {<<"x",".","m","p","4">>, <<"a",".","m","p","3">>, <<".","e","n","v">>, DotDot}

\* the components before it: none, a sibling directory, another session, the top
DeliveryDirs ==
    {<<>>, <<"..", "audio">>, <<"..", "..", "u2", "export">>,
     <<"..", "..", "u2", "audio">>, <<"..", "..", "..">>}

DeliveryRequests == [dir : DeliveryDirs, name : DeliveryNames]

\* the files that may be there: of this session (u1), of another (u2), of the program
DeliveryFiles ==
    {[dir |-> <<"temp_files", "u1", "export">>, name |-> <<"x",".","m","p","4">>],
     [dir |-> <<"temp_files", "u1", "audio">>, name |-> <<"a",".","m","p","3">>],
     [dir |-> <<"temp_files", "u2", "export">>, name |-> <<"x",".","m","p","4">>],
     [dir |-> <<"temp_files", "u2", "audio">>, name |-> <<"a",".","m","p","3">>],
     [dir |-> <<>>, name |-> <<".","e","n","v">>]}

\* a browser without a session, or one whose session got its id from a voice call
DeliveryInit ==
    /\ variant = "flask"
    /\ session \in {EmptyDict, [session_id |-> "u1", audio_files |-> EmptyDict]}
    /\ client_translations = EmptyDict
    /\ files \in SUBSET DeliveryFiles
    /\ calls = NoCalls
    /\ resp = Answer("", EmptyDict)
    /\ last = [op |-> "start"]
    /\ requests = <<>>
    /\ stored = <<>>

DeliveryNext ==
    \/ \E filename \in DeliveryRequests : FlaskDownloadFile(filename)
    \/ \E filepath \in DeliveryRequests : FlaskServeAudio(filepath)
    \/ \E filepath \in DeliveryRequests : FlaskServeVideo(filepath)

DeliverySpec == DeliveryInit /\ [][DeliveryNext]_vars

-----------------------------------------------------------------------------
(* src/AdLocalizerLight.py: the language selection. The session here holds    *)
(* selected_languages and, under the key language_selector, the state of the  *)
(* multiselect; each action is the rerun of a user action together with the   *)
(* rerun that st.rerun() asks for.                                            *)

\* list(LANGUAGES.keys()) of AdLocalizerLight.py, in the order of the source
StCatalog ==
    <<"JP","CN","DE","IN","FR","KR","BR","IT","ES","ID","TR","PH","PL","SA","MY","VN","TH">>

\* the preset buttons
Presets ==
    [asian    |-> <<"JP", "CN", "KR", "ID", "TH", "VN", "MY">>,
     european |-> <<"DE", "FR", "IT", "ES", "PL", "TR">>,
     americas |-> <<"ES", "BR", "FR">>,
     top5     |-> <<"JP", "KR", "ES", "BR", "FR">>]

\* the options the user clicks in the multiselect
ClickCodes == {"JP", "FR", "TH"}

\* a click on an option: a selected one is removed, another one is added at the end
Toggle(selection, code) ==
    IF code \in Range(selection) THEN SelectSeq(selection, LAMBDA c : c # code)
    ELSE Append(selection, code)

\* the buttons as they would be if they left the state of the widget in place
KeepWidget(state) == state

\* if 'language_selector' in st.session_state: del st.session_state.language_selector
ForgetWidget(state) == [k \in (DOMAIN state) \ {"language_selector"} |-> state[k]]

\* st.multiselect(options, default=selected_languages, key="language_selector"): a
\* widget without state takes the default, which must be among the options
RenderMultiselect(state) ==
    IF "language_selector" \in DOMAIN state THEN state
    ELSE IF Range(state["selected_languages"]) \subseteq Range(StCatalog)
    THEN Put(state, "language_selector", state["selected_languages"])
    ELSE Put(state, "raised", TRUE)

\* lang_names = [LANGUAGES[lang] for lang in selected_languages] and the loop of the
\* translate button: a KeyError for a code that is not in the catalog
LookupsFail(state) == ~(Range(state["selected_languages"]) \subseteq Range(StCatalog))

\* a click in the multiselect: on_language_change, then the rerun
StSelectorClick(code) ==
    /\ LET changed == Put(session, "language_selector",
                          Toggle(session["language_selector"], code))
           called == Put(changed, "selected_languages", changed["language_selector"])
       IN  session' = RenderMultiselect(called)
    /\ resp' = Answer(IF LookupsFail(session') THEN "exception" ELSE "ok", EmptyDict)
    /\ last' = [op |-> "language_change", code |-> code]
    /\ UNCHANGED <<requests, stored, variant, client_translations, files, calls>>

\* a button that sets the selection: Select All, Clear All, a preset
SetSelection(button, selection) ==
    /\ LET state == RenderMultiselect(session)
           set == Put(state, "selected_languages", selection)
       IN  session' = RenderMultiselect(ForgetWidget(set))
    /\ resp' = Answer(IF LookupsFail(session') THEN "exception" ELSE "ok", EmptyDict)
    /\ last' = [op |-> button]
    /\ UNCHANGED <<requests, stored, variant, client_translations, files, calls>>

StSelectAll == SetSelection("select_all", StCatalog)

StClearAll == SetSelection("clear_all", <<>>)

\* the presets show only while a language is selected
StPreset(name) ==
    /\ session["selected_languages"] # <<>>
    /\ SetSelection(name, Presets[name])

\* a rerun with "Translate Text" pressed, as far as the selection goes
StTranslateSelected ==
    /\ session' = RenderMultiselect(session)
    /\ resp' = Answer(IF LookupsFail(session') THEN "exception"
                      ELSE IF session'["selected_languages"] = <<>> THEN "warning"
                      ELSE "ok", EmptyDict)
    /\ last' = [op |-> "translate", widget |-> session'["language_selector"],
                languages |-> session'["selected_languages"]]
    /\ UNCHANGED <<requests, stored, variant, client_translations, files, calls>>

\* the session after the first run of main() (AdLocalizerLight.py 356-357, 430-437)
SelectInit ==
    /\ variant = "streamlit"
    /\ session = RenderMultiselect(
                     [selected_languages |-> <<"JP", "CN", "DE", "FR", "KR", "ES">>])
    /\ client_translations = EmptyDict
    /\ files = {}
    /\ calls = NoCalls
    /\ resp = Answer("", EmptyDict)
    /\ last = [op |-> "start"]
    /\ requests = <<>>
    /\ stored = <<>>

SelectNext ==
    \/ \E code \in ClickCodes : StSelectorClick(code)
    \/ StSelectAll
    \/ StClearAll
    \/ \E name \in DOMAIN Presets : StPreset(name)
    \/ StTranslateSelected

SelectSpec == SelectInit /\ [][SelectNext]_vars

-----------------------------------------------------------------------------
(* The stage a language has reached, as the mappings record it *)

\* pending 0 < translated 1 < voiced 2 < mixed 3
StageRank(l) ==
    IF l \in DOMAIN MixedVideos THEN 3
    ELSE IF l \in DOMAIN AudioFiles THEN 2
    ELSE IF l \in DOMAIN Translations THEN 1
    ELSE 0

\* the translations the program itself holds: st.session_state.translations; the Flask
\* session holds none
HeldTranslations == Get(session, "translations", EmptyDict)

\* the stage as the session's own mappings record it
HeldStageRank(l) ==
    IF l \in DOMAIN MixedVideos THEN 3
    ELSE IF l \in DOMAIN AudioFiles THEN 2
    ELSE IF l \in DOMAIN HeldTranslations THEN 1
    ELSE 0

\* the translation collaborator either raised or answered with a text that is not blank
NoBlankAnswer ==
    \A l \in DOMAIN last.outcome : last.outcome[l] = Fail \/ Truthy(Strip(last.outcome[l]))

\* the artifacts recorded for a language
Artifacts(l) ==
    <<Get(Translations, l, None), Get(AudioFiles, l, NoPath), Get(MixedVideos, l, NoPath)>>

\* the call went through / was turned down by the handler's own check
Accepted == resp.status \in {"200", "ok"}

Rejected == resp.status \in {"400", "warning"}

\* the languages for which the translation collaborator raised or answered with a blank
TranslationFailed(l) ==
    l \in DOMAIN last.outcome /\ ~Truthy(translate_text(last.text, l, last.mode, last.outcome[l]))

-----------------------------------------------------------------------------
(* Claims *)

\* C1: over any step, no language leaves a mapping the program holds for the job
\* (the translations, audio_files or mixed_videos of the session), and the stage these
\* mappings record for it never decreases.
C1_StageNeverDecreases ==
    [][\A l \in Codes :
          /\ HeldStageRank(l)' >= HeldStageRank(l)
          /\ (l \in DOMAIN HeldTranslations => l \in DOMAIN HeldTranslations')
          /\ (l \in DOMAIN AudioFiles => l \in DOMAIN AudioFiles')
          /\ (l \in DOMAIN MixedVideos => l \in DOMAIN MixedVideos')]_vars

\* C2: a translation call with a non-empty language list and a non-blank text returns
\* a mapping whose key set is exactly the requested languages.
C2_OneResultPerRequestedLanguage ==
    (last.op = "translate" /\ last.languages # <<>> /\ Strip(last.text) # <<>>
        /\ Range(last.languages) \subseteq DOMAIN LANGUAGES /\ NoBlankAnswer)
        => DOMAIN resp.body = Range(last.languages)

\* C3: after an accepted translation call, every language whose collaborator call
\* returned a text is translated with that text (stripped), whatever happened to the
\* other languages of the call, those before it in the list included.
C3_TranslationFailureIsolation ==
    (last.op = "translate" /\ Accepted) =>
        \A l \in DOMAIN last.outcome :
            ~TranslationFailed(l) =>
                /\ l \in DOMAIN resp.body
                /\ resp.body[l] = Strip(last.outcome[l])
                /\ l \in DOMAIN Translations
                /\ Translations[l] = Strip(last.outcome[l])

\* C3 witness: the collaborator raised for one language and a later one is translated
C3_Witness ==
    /\ last.op = "translate" /\ Accepted
    /\ \E i, j \in 1..Len(last.languages) :
          /\ i < j
          /\ last.languages[i] \in DOMAIN last.outcome
          /\ last.outcome[last.languages[i]] = Fail
          /\ last.languages[j] \in DOMAIN resp.body

\* C4: a language whose translation failed has a result of its own in what the call
\* returns, so that it differs from a language that was never requested.
C4_FailedLanguageIsRecorded ==
    (last.op = "translate" /\ Accepted /\ NoBlankAnswer) =>
        \A l \in DOMAIN last.outcome :
            last.outcome[l] = Fail => l \in DOMAIN resp.body

\* C5: a generate-voice call leaves the stage and the artifacts of every language that
\* is not at translated as they were: a language that already has a voice or a mixed
\* video, and a language with no translation, neither recorded nor given to the call.
C5_VoiceCallNoOpUnlessTranslated ==
    [][last'.op = "generate_voice" =>
          \A l \in Codes :
              (StageRank(l) >= 2 \/ (StageRank(l) = 0 /\ l \notin DOMAIN last'.translations)) =>
                  /\ StageRank(l)' = StageRank(l)
                  /\ Artifacts(l)' = Artifacts(l)]_vars

\* C6: an accepted generate-voice call invokes the synthesis collaborator exactly for
\* the languages with a recorded translation, each with that translation and the given
\* voice_id, and a language has a voice afterwards exactly when its synthesis succeeded.
C6_VoiceCallSynthesizesRecordedTranslations ==
    (last.op = "generate_voice" /\ Accepted) =>
        /\ {c.lang : c \in calls.synth} = DOMAIN Translations
        /\ \A c \in calls.synth :
              /\ c.text = Translations[c.lang]
              /\ c.voice_id = last.voice_id
        /\ \A l \in DOMAIN Translations :
              l \in DOMAIN AudioFiles <=> Get(last.outcome, l, Fail) = Ok

\* C7: a mix call made while no base video is set is turned down, invokes the mix
\* collaborator for no language and changes nothing.
C7_MixWithoutVideoChangesNothing ==
    [][(last'.op = "mix_audio" /\ VideoPath = NoPath /\ VideoPath' = NoPath) =>
          /\ resp'.status \in {"400", "warning"}
          /\ calls'.mix = {}
          /\ session' = session
          /\ files' = files
          /\ client_translations' = client_translations]_vars

\* C7 witness: a mix call was turned down although voices were there
C7_Witness ==
    /\ last.op = "mix_audio"
    /\ Rejected
    /\ VideoPath = NoPath
    /\ AudioFiles # EmptyDict

\* C8: a mix call whose precondition holds, and in which no error output of ffmpeg
\* failed to decode, invokes the mix collaborator exactly for the languages with a voice, each with its own voice file and the base video, and a
\* language has a mixed video afterwards exactly when its mix succeeded.
C8_MixCallMixesEveryVoicedLanguage ==
    (last.op = "mix_audio" /\ AudioFiles # EmptyDict /\ VideoPath # NoPath
        /\ FailBadStderr \notin Values(last.outcome)) =>
        /\ {c.lang : c \in calls.mix} = DOMAIN AudioFiles
        /\ \A c \in calls.mix :
              /\ c.audio_file = AudioFiles[c.lang]
              /\ c.video_file = VideoPath
        /\ \A l \in DOMAIN AudioFiles :
              l \in DOMAIN MixedVideos <=> Get(last.outcome, l, Fail) = Ok

\* C9: the archive the package step builds holds exactly one entry for each language
\* that has a mixed video, the file of that video, and no other entry.
C9_PackageHoldsExactlyTheMixed ==
    (last.op = "download_all" /\ Accepted) =>
        /\ Len(resp.body) = Cardinality(DOMAIN MixedVideos)
        /\ \A l \in DOMAIN MixedVideos :
              Cardinality({i \in 1..Len(resp.body) : resp.body[i] = MixedVideos[l].name}) = 1
        /\ \A i \in 1..Len(resp.body) :
              \E l \in DOMAIN MixedVideos : resp.body[i] = MixedVideos[l].name

\* C9 witness: an archive was built after a mix in which a voiced language failed and
\* an earlier mix had left that language's file in the export directory
C9_Witness ==
    /\ last.op = "download_all" /\ Accepted
    /\ \E l \in DOMAIN AudioFiles :
          /\ l \notin DOMAIN MixedVideos
          /\ \E m \in DOMAIN MixedVideos :
                [dir |-> MixedVideos[m].dir,
                 name |-> MixOutputFile(<<>>, VideoPath.name, l).name] \in files

\* C10: a translation call with an empty language list is turned down, reaches the
\* translation collaborator for no language and leaves every recorded result as it was.
C10_EmptyLanguageListRejected ==
    [][(last'.op = "translate" /\ last'.languages = <<>>) =>
          /\ resp'.status \in {"400", "warning"}
          /\ calls' = NoCalls
          /\ Translations' = Translations
          /\ AudioFiles' = AudioFiles
          /\ MixedVideos' = MixedVideos]_vars

\* C10 witness: such a call was turned down with a text given and translations recorded
C10_Witness ==
    /\ last.op = "translate"
    /\ last.languages = <<>>
    /\ last.text # <<>>
    /\ Rejected
    /\ Translations # EmptyDict

\* C11: a translation call with a text that names a language code outside the catalog
\* is turned down as bad input.
C11_UnknownLanguageRejected ==
    (last.op = "translate" /\ Strip(last.text) # <<>>
        /\ ~(Range(last.languages) \subseteq DOMAIN LANGUAGES)) => Rejected

\* C12: the mix collaborator is never invoked with a gain outside [0.0, 2.0].
C12_MixGainsWithinRange ==
    \A c \in calls.mix :
        /\ c.volumes.original \in 0..MaxVolume
        /\ c.volumes.voiceover \in 0..MaxVolume

\* C13: a translate, generate-voice or mix call that got as far as invoking its
\* collaborator completes and answers with a result mapping, however the collaborator
\* calls ended.
C13_BatchCallSurvivesCollaboratorFailure ==
    (last.op \in {"translate", "generate_voice", "mix_audio"} /\ last.outcome # EmptyDict)
        => Accepted

\* C14: in every state, a language with a mixed video has a recorded voice, and (where
\* the program holds the translations) a language with a voice has a recorded translation.
C14_LaterStageHasPriorArtifact ==
    \A l \in Codes :
        /\ (l \in DOMAIN MixedVideos => l \in DOMAIN AudioFiles)
        /\ (variant = "streamlit" /\ l \in DOMAIN AudioFiles
                => l \in DOMAIN HeldTranslations)

\* C15: once a base video is recorded, no step replaces it with another.
C15_BaseVideoSetAtMostOnce ==
    [][VideoPath # NoPath => VideoPath' = VideoPath]_vars

\* C16: every generate-voice or mix request that is being handled eventually returns,
\* whether or not the collaborator answers.
C16_BatchCallEventuallyReturns ==
    \A r \in RequestIds :
        (requests[r].pc \in {"loop", "call"}) ~> (requests[r].pc \in {"done", "failed"})

\* C17: when two generate-voice requests of one session over different languages have
\* both returned, the session holds the voices of both.
C17_ConcurrentVoiceResultsBothKept ==
    \A r1, r2 \in RequestIds :
        (/\ r1 # r2
         /\ requests[r1].op = "generate_voice" /\ requests[r1].pc = "done"
         /\ requests[r2].op = "generate_voice" /\ requests[r2].pc = "done"
         /\ (DOMAIN requests[r1].arg.translations)
                \cap (DOMAIN requests[r2].arg.translations) = {})
        => \A l \in DOMAIN requests[r1].result :
               /\ l \in DOMAIN AudioFiles
               /\ AudioFiles[l] = requests[r1].result[l]

\* C18: all the languages of one mix pass are mixed against the same base video, with
\* the same content, and with the same two gains.
C18_MixPassReadsOneBaseVideo ==
    \A c1, c2 \in calls.mix :
        c1.request = c2.request =>
            /\ c1.video_file = c2.video_file
            /\ c1.content = c2.content
            /\ c1.volumes = c2.volumes

\* C19: when a transcription call has returned, none of the temporary files it created
\* (the copy of the video, the extracted audio) is left in temp_transcription.
C19_TranscriptionLeavesNoTempFile ==
    last.op = "transcribe" => last.created \cap files = {}

\* C20: two synthesis requests get the same voice file exactly when they have the same
\* voice, the same language and the same text.
C20_VoicePathCollisionFree ==
    last.op = "synthesized" =>
        (resp.body[1] = resp.body[2] <=> last.first = last.second)

\* C21: the text translate_text returns holds no line break, whatever the answer of
\* the translation collaborator held.
C21_TranslationIsSingleParagraph ==
    (last.op = "translated" /\ resp.body # None) => "\n" \notin Range(resp.body)

\* an entry of the session that a step adds, removes or changes
Changed(k) ==
    \/ (k \in DOMAIN session) # (k \in DOMAIN session')
    \/ (k \in DOMAIN session /\ k \in DOMAIN session' /\ session[k] # session'[k])

\* the entries of the session that belong to the stage of a route
StageKeys(op) ==
    CASE op = "upload_video" -> {"session_id", "video_path"}
      [] op = "generate_voice" -> {"session_id", "audio_files"}
      [] op = "mix_audio" -> {"mixed_videos"}
      [] OTHER -> {}

\* C22: a call of a Flask route changes no entry of the session but those of its own
\* stage (translate, the download and the preview routes: none), and a call answered
\* with 400 or 404 changes neither the session nor the files.
C22_FlaskStageFrame ==
    [][variant = "flask" =>
          /\ \A k \in (DOMAIN session) \cup (DOMAIN session') :
                Changed(k) => k \in StageKeys(last'.op)
          /\ (resp'.status \in {"400", "404"} => session' = session /\ files' = files)]_vars

\* C22 witness: a voice call went through in a session that held a video and mixed
\* videos, and a preview route was called in a session that holds them all
C22_Witness ==
    /\ variant = "flask"
    /\ last.op = "serve_video"
    /\ resp.status = "200"
    /\ {"session_id", "video_path", "audio_files", "mixed_videos"} \subseteq DOMAIN session

\* C25: a delivery route returns a file only if the session has an id and the file lies
\* directly in that session's export directory (audio directory for /audio), whatever
\* the request path; without a session id the answer is 404.
C25_DeliveryStaysInOwnSession ==
    last.op \in {"download_file", "serve_audio", "serve_video"} =>
        /\ ("session_id" \notin DOMAIN session => resp.status = "404")
        /\ (resp.status = "200" =>
               /\ resp.body \in Disk
               /\ resp.body.dir =
                      <<"temp_files", session["session_id"],
                        IF last.op = "serve_audio" THEN "audio" ELSE "export">>)

\* C25 witness: a request path with ".." components was answered with a file
C25_Witness ==
    /\ last.op \in {"serve_audio", "serve_video"}
    /\ ".." \in Range(last.filepath.dir)
    /\ resp.status = "200"

\* C23: a step that is not a mix and keeps the mixed video of a language, which the
\* package step would include, leaves what that video was mixed from as it was: the
\* base video, the translation of the language, and its voice (no new synthesis).
C23_KeptMixedVideoIsFresh ==
    [][\A l \in Codes :
          (l \in DOMAIN MixedVideos /\ l \in DOMAIN MixedVideos' /\ last'.op # "mix_audio")
              => /\ VideoPath' = VideoPath
                 /\ Get(Translations', l, None) = Get(Translations, l, None)
                 /\ ~(last'.op = "generate_voice" /\ l \in {c.lang : c \in calls'.synth})]_vars

\* the directory of the session with that id
SessionDir(session_id, sub) == <<"temp_files", session_id, sub>>

\* C24: in the Flask session, audio_files, video_path or mixed_videos is never present
\* without session_id; a session_id once assigned is not changed by any call; and a mix
\* call that passes its check writes under temp_files/<session_id>, the directory that
\* holds the session's voices and its video.
C24_SessionIdentity ==
    [][variant = "flask" =>
          /\ ((DOMAIN session') \cap {"audio_files", "video_path", "mixed_videos"} # {}
                 => "session_id" \in DOMAIN session')
          /\ ("session_id" \in DOMAIN session
                 => /\ "session_id" \in DOMAIN session'
                    /\ session'["session_id"] = session["session_id"])
          /\ ((last'.op = "mix_audio" /\ resp'.status # "400")
                 => /\ "session_id" \in DOMAIN session'
                    /\ \A f \in files' \cup Values(MixedVideos') :
                          f.dir = SessionDir(session'["session_id"], "export")
                    /\ \A f \in Values(AudioFiles') :
                          f.dir = SessionDir(session'["session_id"], "audio")
                    /\ VideoPath'.dir = SessionDir(session'["session_id"], "video"))]_vars

\* C24 witness: a mix call went through and wrote a video
C24_Witness ==
    /\ variant = "flask"
    /\ last.op = "mix_audio"
    /\ resp.status = "200"
    /\ MixedVideos # EmptyDict
    /\ files # {}

\* C26: a Streamlit mix call made with voices and a recorded video path, in which no
\* error output of ffmpeg failed to decode, mixes every voiced language without raising,
\* also when the upload widget holds no file, and names each mixed video after the
\* video at the recorded path.
C26_StreamlitMixRunsForRecordedVideo ==
    (variant = "streamlit" /\ last.op = "mix_audio" /\ AudioFiles # EmptyDict
        /\ VideoPath # NoPath /\ FailBadStderr \notin Values(last.outcome)) =>
        /\ resp.status = "ok"
        /\ DOMAIN last.outcome = DOMAIN AudioFiles
        /\ \A l \in DOMAIN MixedVideos :
              MixedVideos[l] = MixOutputFile(StExportDir, VideoPath.name, l)

\* C27: the selected languages are all codes of the catalog, no catalog lookup for them
\* fails, and the state of the multiselect equals selected_languages after every user
\* action, so at the start of each translation.
C27_SelectionStaysInCatalog ==
    /\ "raised" \notin DOMAIN session
    /\ Range(session["selected_languages"]) \subseteq Range(StCatalog)
    /\ resp.status # "exception"
    /\ session["language_selector"] = session["selected_languages"]
    /\ (last.op = "translate" => last.widget = last.languages)

\* C27 witness: a translation starts after a preset and a click in the multiselect
C27_Witness ==
    /\ last.op = "translate"
    /\ resp.status = "ok"
    /\ \E name \in DOMAIN Presets, code \in ClickCodes :
          last.languages = Toggle(Presets[name], code)

\* C28: a translation call whose mode is neither faithful nor creative is turned down
\* and reaches the translation collaborator for no language.
C28_UnknownModeRejected ==
    (last.op = "translate" /\ ~ModeKnown(last.mode)) =>
        /\ Rejected
        /\ calls.translate = {}

====
